---- MODULE Spec2Model ----
(***************************************************************************)
(* Retrieval-and-ranking pipeline of the Slack design assistant:           *)
(* normalizeAndTokenize and searchFiles (supabase.js, carried in           *)
(* src/src/server.js from line 315), rerankFilesWithAI (ai.js, carried in  *)
(* src/multi_tenant_migration.sql from line 67) and the access gate of the *)
(* direct-message handler (src/src/server.js lines 97-102).                *)
(*                                                                         *)
(* A JavaScript string is a sequence of one-character strings, so that     *)
(* toLowerCase, split, includes, startsWith and endsWith are computed.     *)
(* null, undefined and '' are all falsy and every use in the code is       *)
(* `x || ''`, `!x` or `x && ...`: an absent text is the empty sequence.    *)
(* A row of the files table is named by its primary key; Rec(id) is its    *)
(* content, which the pipeline never writes.                               *)
(***************************************************************************)
EXTENDS Integers, Sequences, FiniteSets, TLC

VARIABLES pc, queryText, tokens,
          store, workspaceId, limit, rows, legacyRows, scoredRows, issued, failed, result,
          candidates, topK, reply, clientOn, reranked,
          results, userEmail, accessible

tokVars == <<queryText, tokens>>
searchVars ==
  <<store, workspaceId, limit, rows, legacyRows, scoredRows, issued, failed, result>>
rerankVars == <<candidates, topK, reply, clientOn, reranked>>
filterVars == <<results, userEmail, accessible>>
vars == <<pc, tokVars, searchVars, rerankVars, filterVars>>

----------------------------------------------------------------------------
(* Bounds of the model.                                                    *)

\* longest query text enumerated character by character
MaxQueryLen == 4
\* most rows of a small record store
MaxStore == 3
\* largest limit passed to searchFiles
MaxLimit == 3
\* most candidates handed to rerankFilesWithAI
MaxCand == 3
\* largest topK passed to rerankFilesWithAI
MaxTopK == 4
\* most entries of the reasoning service's ranked array
MaxRanked == 2
\* most records handed to the access gate
MaxResults == 2
\* most rows handed to scoreList alone, and most words of its query
MaxArr == 2
MaxWords == 2
\* private rows uploaded after the other rows of a store of the message handler
MaxSecrets == 10

----------------------------------------------------------------------------
(* JavaScript strings.                                                     *)

UpperChars == <<"A","B","C","D","E","F","G","H","I","J","K","L","M","N","O","P","Q","R","S","T","U","V","W","X","Y","Z">>
LowerChars == <<"a","b","c","d","e","f","g","h","i","j","k","l","m","n","o","p","q","r","s","t","u","v","w","x","y","z">>
DigitChars == <<"0","1","2","3","4","5","6","7","8","9">>

\* the characters the split pattern [^a-z0-9] does not match
AlnumChars == {LowerChars[i] : i \in 1..26} \cup {DigitChars[i] : i \in 1..10}

\* the characters of the model's texts
Chars ==
  {UpperChars[i] : i \in 1..26} \cup AlnumChars \cup {" ", "&", "?", "!", "@", ".", "-"}

\* String.prototype.toLowerCase, character by character
LowerOf ==
  [c \in Chars |->
     IF \E i \in 1..26 : UpperChars[i] = c
     THEN LowerChars[CHOOSE i \in 1..26 : UpperChars[i] = c]
     ELSE c]

toLowerChar(c) == LowerOf[c]

toLowerCase(s) == [i \in 1..Len(s) |-> toLowerChar(s[i])]

\* s.includes(t)
includes(s, t) ==
  \E k \in 0..(Len(s) - Len(t)) : SubSeq(s, k + 1, k + Len(t)) = t

\* s.startsWith(t)
startsWith(s, t) == Len(t) <= Len(s) /\ SubSeq(s, 1, Len(t)) = t

\* t.endsWith('s')
endsWithS(t) == Len(t) > 0 /\ t[Len(t)] = "s"

\* seq.slice(0, n) for n >= 0
Take(seq, n) == SubSeq(seq, 1, IF n < Len(seq) THEN n ELSE Len(seq))

\* the elements of a sequence
Range(seq) == {seq[i] : i \in 1..Len(seq)}

\* SortDesc by a sort that is not stable: an element goes before, not behind,
\* the earlier elements of equal key
SortDescUnstable(pairs) ==
  LET Insert(sorted, x) ==
        LET k == Cardinality({j \in 1..Len(sorted) : sorted[j].key > x.key})
        IN  SubSeq(sorted, 1, k) \o <<x>> \o SubSeq(sorted, k + 1, Len(sorted))
      F[i \in 0..Len(pairs)] == IF i = 0 THEN <<>> ELSE Insert(F[i - 1], pairs[i])
  IN  F[Len(pairs)]

\* Array.prototype.sort with a comparator (a, b) => key(b) - key(a), over
\* elements [val, key]: descending by key, and stable (ECMAScript 2019), so
\* each element goes behind every earlier element whose key is at least its own.
SortDesc(pairs) ==
  LET Insert(sorted, x) ==
        LET k == Cardinality({j \in 1..Len(sorted) : sorted[j].key >= x.key})
        IN  SubSeq(sorted, 1, k) \o <<x>> \o SubSeq(sorted, k + 1, Len(sorted))
      F[i \in 0..Len(pairs)] == IF i = 0 THEN <<>> ELSE Insert(F[i - 1], pairs[i])
  IN  F[Len(pairs)]

----------------------------------------------------------------------------
(* normalizeAndTokenize.                                                   *)

STOPWORDS == {
  <<"a">>,<<"a","n">>,<<"t","h","e">>,<<"a","n","d">>,<<"o","r">>,<<"b","u","t">>,<<"i","f">>,<<"t","h","e","n">>,<<"e","l","s","e">>,<<"w","h","e","n">>,<<"w","h","a","t">>,
  <<"w","h","i","c","h">>,<<"w","h","o">>,<<"w","h","o","m">>,<<"t","h","i","s">>,<<"t","h","a","t">>,<<"t","h","o","s","e">>,<<"t","h","e","s","e">>,<<"i","s">>,<<"a","r","e">>,
  <<"w","a","s">>,<<"w","e","r","e">>,<<"b","e">>,<<"b","e","e","n">>,<<"b","e","i","n","g">>,<<"a","m">>,<<"d","o">>,<<"d","o","e","s">>,<<"d","i","d">>,<<"d","o","i","n","g">>,
  <<"h","a","v","e">>,<<"h","a","s">>,<<"h","a","d">>,<<"h","a","v","i","n","g">>,<<"c","a","n">>,<<"c","o","u","l","d">>,<<"s","h","o","u","l","d">>,<<"w","o","u","l","d">>,<<"m","a","y">>,
  <<"m","i","g","h","t">>,<<"m","u","s","t">>,<<"w","i","l","l">>,<<"s","h","a","l","l">>,<<"i">>,<<"y","o","u">>,<<"h","e">>,<<"s","h","e">>,<<"i","t">>,<<"w","e">>,
  <<"t","h","e","y">>,<<"m","e">>,<<"h","i","m">>,<<"h","e","r">>,<<"u","s">>,<<"t","h","e","m">>,<<"m","y">>,<<"y","o","u","r">>,<<"o","u","r">>,<<"t","h","e","i","r">>,
  <<"t","o">>,<<"f","r","o","m">>,<<"i","n">>,<<"o","n">>,<<"a","t">>,<<"f","o","r">>,<<"o","f">>,<<"b","y">>,<<"w","i","t","h">>,<<"a","s">>,<<"a","b","o","u","t">>,
  <<"i","n","t","o">>,<<"o","v","e","r">>,<<"a","f","t","e","r">>,<<"b","e","f","o","r","e">>,<<"u","p">>,<<"d","o","w","n">>,<<"o","u","t">>,<<"o","f","f">>,<<"a","g","a","i","n">>,
  <<"f","u","r","t","h","e","r">>,<<"o","n","c","e">>,<<"h","e","r","e">>,<<"t","h","e","r","e">>,<<"w","h","y">>,<<"h","o","w">>,<<"h","e","y">>,<<"p","l","e","a","s","e">>,
  <<"s","h","a","r","e">>,<<"s","e","n","d">>,<<"l","a","t","e","s","t">>,<<"n","e","w">>,<<"n","e","w","e","s","t">> }

\* raw.split(/[^a-z0-9]+/).filter(Boolean): the maximal runs of [a-z0-9];
\* cur is the run in progress at position i
RECURSIVE SplitWords(_, _, _)
SplitWords(s, i, cur) ==
  IF i > Len(s) THEN (IF cur = <<>> THEN <<>> ELSE <<cur>>)
  ELSE IF s[i] \in AlnumChars THEN SplitWords(s, i + 1, Append(cur, s[i]))
  ELSE (IF cur = <<>> THEN <<>> ELSE <<cur>>) \o SplitWords(s, i + 1, <<>>)

\* t => (t.endsWith('s') ? t.slice(0, -1) : t)
StripPlural(t) == IF endsWithS(t) THEN SubSeq(t, 1, Len(t) - 1) ELSE t

\* t => t.length >= 3 && !STOPWORDS.has(t)
KeepToken(t) == Len(t) >= 3 /\ t \notin STOPWORDS

\* const all = raw.split(...).filter(Boolean)
RawWords(q) == SplitWords(toLowerCase(q), 1, <<>>)

normalizeAndTokenize(q) ==
  LET all == RawWords(q)
      toks == SelectSeq([i \in 1..Len(all) |-> StripPlural(all[i])], KeepToken)
  IN  IF Len(toks) > 0 THEN toks ELSE all

----------------------------------------------------------------------------
(* The files table.                                                        *)

\* a row with every optional column absent
Blank ==
  [workspace_id |-> 0, file_name |-> <<>>, name |-> <<>>, description |-> <<>>,
   project |-> <<>>, tags_is_array |-> FALSE, tags_array |-> <<>>, tags |-> <<>>,
   tags_text |-> <<>>, privacy |-> "", allowed_user_emails |-> <<>>]

\* the rows the stores of the model are made of, by primary key 1..6
Pool == <<
  [Blank EXCEPT !.workspace_id = 1, !.file_name = <<"O","R","C","A"," ","D","a","s","h","b","o","a","r","d"," ","M","o","c","k","u","p"," ","v","2">>],
  [Blank EXCEPT !.workspace_id = 1, !.name = <<"D","a","s","h","b","o","a","r","d">>, !.project = <<"O","r","c","a">>,
                !.privacy = "public"],
  [Blank EXCEPT !.workspace_id = 2, !.file_name = <<"o","r","c","a"," ","l","o","g","o">>,
                !.description = <<"M","o","c","k","u","p">>, !.privacy = "company"],
  [Blank EXCEPT !.workspace_id = 1, !.file_name = <<"d","a","s","h","b","o","a","r","d">>,
                !.tags_is_array = TRUE, !.tags_array = <<<<"o","r","c","a">>, <<"u","i">>>>,
                !.privacy = "private",
                !.allowed_user_emails = <<<<"A","n","n","@","x",".","i","o">>, <<"b","o","b","@","x",".","i","o">>>>],
  [Blank EXCEPT !.workspace_id = 2, !.file_name = <<"L","o","g","i","n">>,
                !.tags_is_array = TRUE, !.tags_array = <<<<"u","i">>>>,
                !.tags_text = <<"d","a","s","h","b","o","a","r","d">>, !.privacy = "private"],
  [Blank EXCEPT !.workspace_id = 1, !.file_name = <<"o","r","c","a"," ","d","a","s","h","b","o","a","r","d"," ","m","o","c","k","u","p">>,
                !.project = <<"o","r","c","a"," ","d","a","s","h","b","o","a","r","d"," ","m","o","c","k","u","p">>, !.privacy = "Public",
                !.allowed_user_emails = <<<<"c","y","@","x",".","i","o">>>>] >>

\* rows older than the pool's, all alike, that fill a large table
Filler == [Blank EXCEPT !.workspace_id = 2, !.file_name = <<"U","n","t","i","t","l","e","d">>]

\* a private row of workspace 1 that names nobody in allowed_user_emails; the
\* rows with a primary key above 300 have this content
Secret ==
  [Blank EXCEPT !.workspace_id = 1, !.file_name = <<"d","a","s","h","b","o","a","r","d"," ","s","e","c","r","e","t">>,
                !.privacy = "private"]

\* the content of the row with primary key id
Rec(id) ==
  IF id \in 1..Len(Pool) THEN Pool[id] ELSE IF id > 300 THEN Secret ELSE Filler

\* .limit(200) of every query of searchFiles
FetchCap == 200

\* the five columns of the Tier 1 filter as ILIKE compares them, without case
IlikeColumns(r) ==
  <<toLowerCase(r.file_name), toLowerCase(r.name), toLowerCase(r.description),
    toLowerCase(r.project), toLowerCase(r.tags_text)>>

\* IlikeColumns of every row, computed once
IlikeTable == [id \in 1..Len(Pool) |-> IlikeColumns(Pool[id])]
IlikeFiller == IlikeColumns(Filler)
IlikeSecret == IlikeColumns(Secret)
IlikeOf(id) ==
  IF id \in 1..Len(Pool) THEN IlikeTable[id]
  ELSE IF id > 300 THEN IlikeSecret ELSE IlikeFiller

\* .or(file_name.ilike.%p%, name.ilike.%p%, description.ilike.%p%,
\*     project.ilike.%p%, tags_text.ilike.%p%), p lower-case and alphanumeric
MatchesPrimary(id, primary) ==
  \E c \in 1..5 : includes(IlikeOf(id)[c], primary)

\* Tier 1: .eq('workspace_id', ws).or(...).order('uploaded_at', desc).limit(200);
\* a store is kept in descending upload time
Tier1Rows(st, ws, primary) ==
  Take(SelectSeq(st, LAMBDA id : Rec(id).workspace_id = ws /\ MatchesPrimary(id, primary)),
       FetchCap)

\* Tier 2: .eq('workspace_id', ws).order('uploaded_at', desc).limit(200)
Tier2Rows(st, ws) ==
  Take(SelectSeq(st, LAMBDA id : Rec(id).workspace_id = ws), FetchCap)

\* LegacyRows with the workspace filter left on the query
LegacyRowsScoped(st) ==
  Take(SelectSeq(st, LAMBDA id : Rec(id).workspace_id = workspaceId), FetchCap)

\* Tier 3: .order('uploaded_at', desc).limit(200), no workspace filter
LegacyRows(st) == Take(st, FetchCap)

----------------------------------------------------------------------------
(* searchFiles: primary token and scoring.                                 *)

\* PrimaryToken that takes the last of the longest tokens
PrimaryTokenLastLongest(toks) ==
  LET sorted == SortDescUnstable([i \in 1..Len(toks) |->
                                    [val |-> toks[i], key |-> Len(toks[i])]])
  IN  IF Len(sorted) > 0 THEN sorted[1].val ELSE <<>>

\* tokens.slice().sort((a, b) => b.length - a.length)[0] || ''
PrimaryToken(toks) ==
  LET sorted == SortDesc([i \in 1..Len(toks) |-> [val |-> toks[i], key |-> Len(toks[i])]])
  IN  IF Len(sorted) > 0 THEN sorted[1].val ELSE <<>>

\* r.tags.map(x => String(x)).join(' ')
RECURSIVE JoinSpace(_)
JoinSpace(items) ==
  IF Len(items) = 0 THEN <<>>
  ELSE IF Len(items) = 1 THEN items[1]
  ELSE items[1] \o <<" ">> \o JoinSpace(Tail(items))

\* String(r.file_name || r.name || '').toLowerCase()
NameOf(r) == toLowerCase(IF r.file_name # <<>> THEN r.file_name ELSE r.name)

\* Array.isArray(r.tags) ? r.tags.map(String).join(' ') : String(r.tags || r.tags_text || '')
TagsStrOf(r) ==
  toLowerCase(IF r.tags_is_array THEN JoinSpace(r.tags_array)
              ELSE IF r.tags # <<>> THEN r.tags ELSE r.tags_text)

\* lines 390-395: the four lower-cased texts scoreList reads from a row
ScoreFields(r) ==
  [name |-> NameOf(r), project |-> toLowerCase(r.project),
   tagsStr |-> TagsStrOf(r), desc |-> toLowerCase(r.description)]

\* ScoreFields of every row, computed once
ScoreFieldsTable == [id \in 1..Len(Pool) |-> ScoreFields(Pool[id])]
ScoreFieldsFiller == ScoreFields(Filler)
ScoreFieldsSecret == ScoreFields(Secret)
ScoreFieldsOf(id) ==
  IF id \in 1..Len(Pool) THEN ScoreFieldsTable[id]
  ELSE IF id > 300 THEN ScoreFieldsSecret ELSE ScoreFieldsFiller

\* TokenPoints with the starts-with bonus given to every name that contains
\* the token
TokenPointsContainsBonus(f, t) ==
  IF t = <<>> THEN 0
  ELSE (IF includes(f.name, t) THEN 8 ELSE 0)
     + (IF includes(f.name, t) THEN 4 ELSE 0)
     + (IF includes(f.project, t) THEN 3 ELSE 0)
     + (IF includes(f.tagsStr, t) THEN 3 ELSE 0)
     + (IF includes(f.desc, t) THEN 2 ELSE 0)

\* lines 398-403: the points one token adds to a row's score
TokenPoints(f, t) ==
  IF t = <<>> THEN 0
  ELSE (IF includes(f.name, t) THEN 8 ELSE 0)
     + (IF startsWith(f.name, t) THEN 4 ELSE 0)
     + (IF includes(f.project, t) THEN 3 ELSE 0)
     + (IF includes(f.tagsStr, t) THEN 3 ELSE 0)
     + (IF includes(f.desc, t) THEN 2 ELSE 0)

\* Score that counts a token once however often the query repeats it
ScoreDistinctTokens(id, toks) ==
  LET F[i \in 0..Len(toks)] ==
        IF i = 0 THEN 0
        ELSE IF \E j \in 1..(i - 1) : toks[j] = toks[i] THEN F[i - 1]
        ELSE F[i - 1] + TokenPoints(ScoreFieldsOf(id), toks[i])
  IN  F[Len(toks)]

\* the loop `for (const t of tokens)` over one row
Score(id, toks) ==
  LET F[i \in 0..Len(toks)] ==
        IF i = 0 THEN 0 ELSE F[i - 1] + TokenPoints(ScoreFieldsOf(id), toks[i])
  IN  F[Len(toks)]

\* scoreList(arr): arr.map(r => ({ row: r, score }))
scoreList(arr, toks) ==
  [i \in 1..Len(arr) |-> [row |-> arr[i], score |-> Score(arr[i], toks)]]

\* .filter(x => x.score > 0)
Positives(scored) == SelectSeq(scored, LAMBDA x : x.score > 0)

\* positives.sort((a, b) => b.score - a.score).map(x => x.row).slice(0, limit)
RankedRows(positives, lim) ==
  LET sorted == SortDesc([i \in 1..Len(positives) |->
                            [val |-> positives[i].row, key |-> positives[i].score]])
  IN  Take([i \in 1..Len(sorted) |-> sorted[i].val], lim)

\* NeedsLegacy of a search that fetches the legacy rows on every run
NeedsLegacyAlways(scoredPrimary) == TRUE

\* if (!scoredPrimary.length): the legacy query is needed
NeedsLegacy(scoredPrimary) == Len(scoredPrimary) = 0

----------------------------------------------------------------------------
(* Inputs of the model.                                                    *)

\* the characters of the enumerated query texts
TokAlphabet == {"t", "h", "i", "s", "a", "S", " "}

OrcaQuery == <<"O","R","C","A"," ","d","a","s","h","b","o","a","r","d"," ","m","o","c","k","u","p">>

\* every text of at most MaxQueryLen characters, and some longer ones
TokQueries ==
  UNION {[1..n -> TokAlphabet] : n \in 0..MaxQueryLen}
    \cup {OrcaQuery, <<"d","o","e","s"," ","t","h","i","s">>, <<"C","a","t","s"," ","&"," ","d","o","g","s">>, <<"t","h","e"," ","l","a","t","e","s","t"," ","l","o","g","o","s"," ","p","l","e","a","s","e">>, <<"?","!">>}

SearchQueries == {OrcaQuery, <<"D","a","s","h","b","o","a","r","d","s">>, <<"t","h","e"," ","l","o","g","o">>, <<"l","o","g","o"," ","o","r","c","a">>, <<"i","s"," ","a">>, <<>>}

\* the stores of at most n distinct rows of the pool, in any upload order
StoresUpTo(n) ==
  {s \in UNION {[1..k -> 1..Len(Pool)] : k \in 0..n} :
     \A i, j \in 1..Len(s) : i < j => s[i] # s[j]}

\* a table of more than FetchCap rows: FetchCap fillers of workspace 2,
\* uploaded after row 3 (workspace 2) and row 1 (workspace 1)
BigStore == [i \in 1..FetchCap |-> 100 + i] \o <<3, 1>>

Stores == StoresUpTo(MaxStore) \cup {BigStore}

Workspaces == {1, 2}

----------------------------------------------------------------------------
(* The states before any operation runs.                                   *)

TokIdle == queryText = <<>> /\ tokens = <<>>

SearchIdle ==
  /\ store = <<>> /\ workspaceId = 0 /\ limit = 0
  /\ rows = <<>> /\ legacyRows = <<>> /\ scoredRows = <<>>
  /\ issued = <<>> /\ failed = "" /\ result = <<>>

RerankIdle ==
  /\ candidates = <<>> /\ topK = 0 /\ reply = [kind |-> "none", ranked |-> <<>>]
  /\ clientOn = FALSE /\ reranked = <<>>

FilterIdle == results = <<>> /\ userEmail = <<>> /\ accessible = <<>>

----------------------------------------------------------------------------
(* normalizeAndTokenize as an operation.                                   *)

InitTokenize ==
  /\ pc = "tok_call"
  /\ queryText \in TokQueries
  /\ tokens = <<>>
  /\ SearchIdle /\ RerankIdle /\ FilterIdle

Tokenize ==
  /\ pc = "tok_call"
  /\ tokens' = normalizeAndTokenize(queryText)
  /\ pc' = "tok_done"
  /\ UNCHANGED <<queryText, searchVars, rerankVars, filterVars>>

NextTokenize == Tokenize

SpecTokenize == InitTokenize /\ [][NextTokenize]_vars

----------------------------------------------------------------------------
(* searchFiles: one action per stretch of code between two awaits.         *)

InitSearch ==
  /\ pc = "start"
  /\ queryText \in SearchQueries
  /\ tokens = <<>>
  /\ store \in Stores
  /\ workspaceId \in Workspaces
  /\ limit \in 1..MaxLimit
  /\ rows = <<>> /\ legacyRows = <<>> /\ scoredRows = <<>>
  /\ issued = <<>> /\ failed = "" /\ result = <<>>
  /\ RerankIdle /\ FilterIdle

\* lines 423-431: return [] or the ranked rows cut to limit
Return(positives) ==
  /\ result' = (IF Len(positives) = 0 THEN <<>> ELSE RankedRows(positives, limit))
  /\ pc' = "returned"

\* lines 385-431 once the workspace-scoped candidates r are known: score them,
\* and either issue the legacy query or return
AfterScoped(r, log) ==
  LET scoredPrimary == Positives(scoreList(r, tokens))
  IN  /\ scoredRows' = scoreList(r, tokens)
      /\ IF NeedsLegacy(scoredPrimary)
         THEN /\ issued' = Append(log, "tier3")
              /\ pc' = "tier3"
              /\ UNCHANGED result
         ELSE /\ issued' = log
              /\ Return(scoredPrimary)

\* lines 355-368 (or 374-380 when there is no primary token): tokenize, pick
\* the primary token, issue the first query
SearchStart ==
  /\ pc = "start"
  /\ tokens' = normalizeAndTokenize(queryText)
  /\ IF PrimaryToken(tokens') # <<>>
     THEN pc' = "tier1" /\ issued' = <<"tier1">>
     ELSE pc' = "tier2" /\ issued' = <<"tier2">>
  /\ UNCHANGED <<queryText, store, workspaceId, limit, rows, legacyRows, scoredRows, failed, result,
                 rerankVars, filterVars>>

\* Tier1Fail of a search that drops the error and goes on to Tier 2 with no row
Tier1FailSwallowed ==
  /\ pc = "tier1"
  /\ pc' = "tier2"
  /\ failed' = "tier1"
  /\ issued' = Append(issued, "tier2")
  /\ UNCHANGED <<tokVars, store, workspaceId, limit, rows, legacyRows, scoredRows, result,
                 rerankVars, filterVars>>

\* line 369: if (filtered.error) throw filtered.error
Tier1Fail ==
  /\ pc = "tier1"
  /\ pc' = "thrown"
  /\ failed' = "tier1"
  /\ UNCHANGED <<tokVars, store, workspaceId, limit, rows, legacyRows, scoredRows, issued, result,
                 rerankVars, filterVars>>

\* lines 370-380 or 370-431: the Tier 1 rows arrive
Tier1Ok ==
  /\ pc = "tier1"
  /\ rows' = Tier1Rows(store, workspaceId, PrimaryToken(tokens))
  /\ IF Len(rows') = 0
     THEN pc' = "tier2" /\ issued' = Append(issued, "tier2") /\ UNCHANGED <<scoredRows, result>>
     ELSE AfterScoped(rows', issued)
  /\ UNCHANGED <<tokVars, store, workspaceId, limit, legacyRows, failed,
                 rerankVars, filterVars>>

\* line 381: if (scoped.error) throw scoped.error
Tier2Fail ==
  /\ pc = "tier2"
  /\ pc' = "thrown"
  /\ failed' = "tier2"
  /\ UNCHANGED <<tokVars, store, workspaceId, limit, rows, legacyRows, scoredRows, issued, result,
                 rerankVars, filterVars>>

\* lines 382-431: the Tier 2 rows arrive
Tier2Ok ==
  /\ pc = "tier2"
  /\ rows' = Tier2Rows(store, workspaceId)
  /\ AfterScoped(rows', issued)
  /\ UNCHANGED <<tokVars, store, workspaceId, limit, legacyRows, failed,
                 rerankVars, filterVars>>

\* line 417: if (legacy.error) throw legacy.error
Tier3Fail ==
  /\ pc = "tier3"
  /\ pc' = "thrown"
  /\ failed' = "tier3"
  /\ UNCHANGED <<tokVars, store, workspaceId, limit, rows, legacyRows, scoredRows, issued, result,
                 rerankVars, filterVars>>

\* lines 418-431: the legacy rows arrive; scoredPrimary is empty here
Tier3Ok ==
  /\ pc = "tier3"
  /\ legacyRows' = LegacyRows(store)
  /\ scoredRows' = scoreList(legacyRows', tokens)
  /\ Return(Positives(scoredRows'))
  /\ UNCHANGED <<tokVars, store, workspaceId, limit, rows, issued, failed,
                 rerankVars, filterVars>>

NextSearch ==
  \/ SearchStart
  \/ Tier1Ok \/ Tier1Fail
  \/ Tier2Ok \/ Tier2Fail
  \/ Tier3Ok \/ Tier3Fail

SpecSearch == InitSearch /\ [][NextSearch]_vars

----------------------------------------------------------------------------
(* scoreList as an operation: the closure of searchFiles over its tokens,  *)
(* applied to some rows.                                                   *)

\* the words the queries of the scorer are made of
ScoreWords == {<<"O","R","C","A">>, <<"d","a","s","h","b","o","a","r","d","s">>, <<"M","o","c","k","u","p">>, <<"u","i">>, <<"i","s">>, <<"l","o","g">>}

\* the queries of at most MaxWords words, with repeats
ScoreQueries ==
  {JoinSpace(ws) : ws \in UNION {[1..n -> ScoreWords] : n \in 0..MaxWords}}

InitScore ==
  /\ pc = "score_call"
  /\ queryText \in ScoreQueries
  /\ tokens = normalizeAndTokenize(queryText)
  /\ rows \in StoresUpTo(MaxArr)
  /\ store = <<>> /\ workspaceId = 0 /\ limit = 0
  /\ legacyRows = <<>> /\ scoredRows = <<>>
  /\ issued = <<>> /\ failed = "" /\ result = <<>>
  /\ RerankIdle /\ FilterIdle

\* lines 389-406: scoreList(rows)
ScoreRows ==
  /\ pc = "score_call"
  /\ scoredRows' = scoreList(rows, tokens)
  /\ pc' = "score_done"
  /\ UNCHANGED <<tokVars, store, workspaceId, limit, rows, legacyRows, issued, failed,
                 result, rerankVars, filterVars>>

NextScore == ScoreRows

SpecScore == InitScore /\ [][NextScore]_vars

----------------------------------------------------------------------------
(* rerankFilesWithAI.                                                      *)
(* A number of the reply is kept in halves (half = 2 * value), which tells *)
(* 0.5 from 0 and 1; NaN and a value that is no number are kinds of their  *)
(* own. A reply is the text the reasoning service answers with, by what    *)
(* JSON.parse makes of it.                                                 *)

\* candidates[i] for an i that is no index of the array: undefined, which is
\* no row (no primary key is 0)
Undefined == 0

Num(h) == [kind |-> "number", half |-> h]
NaN == [kind |-> "NaN", half |-> 0]
NotANumber == [kind |-> "other", half |-> 0]
NoScore == [has |-> FALSE, v |-> 0]
ScoreOf(v) == [has |-> TRUE, v |-> v]

\* r && typeof r.index === 'number'
IsNumber(idx) == idx.kind \in {"number", "NaN"}

\* r.score ?? 0
ScoreKey(r) == IF r.score.has THEN r.score.v ELSE 0

\* ranked.filter(...).sort((a, b) => (b.score ?? 0) - (a.score ?? 0)).map(r => r.index)
Order(ranked) ==
  LET kept == SelectSeq(ranked, LAMBDA r : IsNumber(r.index))
      sorted == SortDesc([i \in 1..Len(kept) |->
                            [val |-> kept[i].index, key |-> ScoreKey(kept[i])]])
  IN  [i \in 1..Len(sorted) |-> sorted[i].val]

\* Array.from(new Set(order)): the first occurrence of each value, in order
Dedup(order) ==
  LET firsts == SelectSeq([i \in 1..Len(order) |-> i],
                          LAMBDA i : \A j \in 1..(i - 1) : order[j] # order[i])
  IN  [k \in 1..Len(firsts) |-> order[firsts[k]]]

\* i >= 0 && i < candidates.length (false of NaN)
InRange(idx, n) == idx.kind = "number" /\ idx.half >= 0 /\ idx.half < 2 * n

\* const unique = Array.from(new Set(order)).filter(i => i >= 0 && i < candidates.length)
Unique(order, n) == SelectSeq(Dedup(order), LAMBDA i : InRange(i, n))

\* candidates[i]: the element at an integer index, undefined at any other
At(cands, idx) ==
  IF idx.half % 2 = 0 THEN cands[(idx.half \div 2) + 1] ELSE Undefined

\* Reordered without the loop that appends the candidates not ranked
ReorderedNoAppend(cands, unique) ==
  [k \in 1..Len(unique) |-> At(cands, unique[k])]

\* unique.map(i => candidates[i]), then the loop that pushes candidates[i] for
\* every i of 0..length-1 that unique does not include
Reordered(cands, unique) ==
  LET missing == SelectSeq([i \in 1..Len(cands) |-> i - 1],
                           LAMBDA i : \A k \in 1..Len(unique) : unique[k] # Num(2 * i))
  IN  [k \in 1..Len(unique) |-> At(cands, unique[k])]
        \o [k \in 1..Len(missing) |-> cands[missing[k] + 1]]

\* the try block throws: JSON.parse rejects the text, or it parses to null and
\* parsed.ranked is a TypeError
ParseThrows(rep) == rep.kind \in {"unparseable", "null"}

\* Array.isArray(parsed.ranked) ? parsed.ranked : []
RankedOf(rep) == IF rep.kind = "array" THEN rep.ranked ELSE <<>>

\* RerankResult without the final slice(0, topK)
RerankResultNoSlice(cands, k, rep) ==
  IF ParseThrows(rep) THEN cands
  ELSE Reordered(cands, Unique(Order(RankedOf(rep)), Len(cands)))

\* lines 99-121: what is returned once the reply text is there
RerankResult(cands, k, rep) ==
  IF ParseThrows(rep) THEN cands
  ELSE Take(Reordered(cands, Unique(Order(RankedOf(rep)), Len(cands))), k)

\* the candidate lists of the model: the first n of a fixed list of rows
CandOrder == <<4, 2, 6, 1, 3, 5>>
CandidateLists == {Take(CandOrder, n) : n \in 0..MaxCand}

\* the index values of the model: -1, 0, 0.5, 1, 2, ... up to MaxCand, NaN, and
\* a value that is no number
IndexVals ==
  {Num(h) : h \in {x \in -2..(2 * MaxCand) : x % 2 = 0 \/ x = 1}} \cup {NaN, NotANumber}

RankedEntries == [index : IndexVals, score : {NoScore, ScoreOf(1)}]

Replies ==
  {[kind |-> k, ranked |-> <<>>] : k \in {"unparseable", "null", "noarray"}}
    \cup {[kind |-> "array", ranked |-> r] :
            r \in UNION {[1..n -> RankedEntries] : n \in 0..MaxRanked}}

InitRerank ==
  /\ pc = "rr_call"
  /\ candidates \in CandidateLists
  /\ topK \in 1..MaxTopK
  /\ clientOn \in BOOLEAN
  /\ reply = [kind |-> "none", ranked |-> <<>>]
  /\ reranked = <<>>
  /\ TokIdle /\ SearchIdle /\ FilterIdle

\* line 74, then lines 76-97 up to the await of the completion
RerankStart ==
  /\ pc = "rr_call"
  /\ IF ~clientOn \/ Len(candidates) = 0
     THEN reranked' = candidates /\ pc' = "rr_returned"
     ELSE reranked' = reranked /\ pc' = "rr_wait"
  /\ UNCHANGED <<candidates, topK, reply, clientOn, tokVars, searchVars, filterVars>>

\* lines 99-121: the completion arrives
RerankReply ==
  /\ pc = "rr_wait"
  /\ \E rep \in Replies :
       /\ reply' = rep
       /\ reranked' = RerankResult(candidates, topK, rep)
  /\ pc' = "rr_returned"
  /\ UNCHANGED <<candidates, topK, clientOn, tokVars, searchVars, filterVars>>

\* line 90: the completion request rejects, and the error leaves the function
RerankFail ==
  /\ pc = "rr_wait"
  /\ pc' = "rr_thrown"
  /\ UNCHANGED <<rerankVars, tokVars, searchVars, filterVars>>

NextRerank == RerankStart \/ RerankReply \/ RerankFail

SpecRerank == InitRerank /\ [][NextRerank]_vars

----------------------------------------------------------------------------
(* The access gate of the message handler.                                 *)

\* (f.allowed_user_emails || []).map(e => String(e).toLowerCase())
AllowedOf(f) ==
  [i \in 1..Len(f.allowed_user_emails) |-> toLowerCase(f.allowed_user_emails[i])]

\* Passes of a gate that takes every privacy but 'private' for open
PassesPrivateOnly(f, email) ==
  IF f.privacy # "private" THEN TRUE
  ELSE email # <<>> /\ toLowerCase(email) \in Range(AllowedOf(f))

\* the callback of results.filter; an absent userEmail is falsy
Passes(f, email) ==
  IF f.privacy = "" \/ f.privacy = "public" \/ f.privacy = "company" THEN TRUE
  ELSE email # <<>> /\ toLowerCase(email) \in Range(AllowedOf(f))

\* results.filter(f => ...)
AccessFilter(res, email) == SelectSeq(res, LAMBDA id : Passes(Rec(id), email))

\* the requesters of the model; <<>> is the absent email
Emails == {<<>>, <<"a","n","n","@","x",".","i","o">>, <<"B","O","B","@","X",".","I","O">>, <<"e","v","e","@","x",".","i","o">>, <<"c","y","@","x",".","i","o">>}

ResultLists == UNION {[1..n -> 1..Len(Pool)] : n \in 0..MaxResults}

InitFilter ==
  /\ pc = "flt_call"
  /\ results \in ResultLists
  /\ userEmail \in Emails
  /\ accessible = <<>>
  /\ TokIdle /\ SearchIdle /\ RerankIdle

\* lines 98-102
Filter ==
  /\ pc = "flt_call"
  /\ accessible' = AccessFilter(results, userEmail)
  /\ pc' = "flt_done"
  /\ UNCHANGED <<results, userEmail, tokVars, searchVars, rerankVars>>

NextFilter == Filter

SpecFilter == InitFilter /\ [][NextFilter]_vars

----------------------------------------------------------------------------
(* app.event('message'): the handler of a direct message, one action per   *)
(* stretch of code between two awaits.  The event is a direct message of a *)
(* user whose team is known; queryText is event.text after trim().         *)

\* searchFiles(text, workspace.id, 10)
HandlerLimit == 10

\* rerankFilesWithAI(text, results, 5)
RerankTopK == 5

HandlerTexts == {<<"D","a","s","h","b","o","a","r","d","s">>, <<"l","o","g","o"," ","o","r","c","a">>, <<>>}

\* the rows of a store that were uploaded before its private rows
HandlerTails == {<<>>, <<2>>, <<4>>, <<1, 3>>, <<2, 4>>}

HandlerStores ==
  {[i \in 1..n |-> 300 + i] \o t : n \in 0..MaxSecrets, t \in HandlerTails}

\* the completions of the model that rank at most one item
HandlerReplies == {rep \in Replies : Len(rep.ranked) <= 1}

InitHandler ==
  /\ pc = "h_recv"
  /\ queryText \in HandlerTexts
  /\ tokens = <<>>
  /\ store \in HandlerStores
  /\ workspaceId = 0 /\ limit = 0
  /\ rows = <<>> /\ legacyRows = <<>> /\ scoredRows = <<>>
  /\ issued = <<>> /\ failed = "" /\ result = <<>>
  /\ candidates = <<>> /\ topK = 0 /\ reply = [kind |-> "none", ranked |-> <<>>]
  /\ clientOn \in BOOLEAN
  /\ reranked = <<>>
  /\ FilterIdle

\* lines 98-124 on the list res: the access filter, then the reply; reading
\* f.privacy of an undefined element throws into the catch of lines 126-130
Gate(res) ==
  /\ results' = res
  /\ IF Undefined \in Range(res)
     THEN accessible' = accessible /\ pc' = "h_error"
     ELSE /\ accessible' = AccessFilter(res, userEmail)
          /\ pc' = (IF Len(accessible') = 0 THEN "h_nomatch" ELSE "h_posted")

\* lines 67-90: an empty text is ignored; otherwise the workspace and the
\* email of the user are looked up and searchFiles is called
HandlerReceive ==
  /\ pc = "h_recv"
  /\ IF queryText = <<>>
     THEN pc' = "h_ignored" /\ UNCHANGED <<workspaceId, limit, userEmail>>
     ELSE /\ pc' = "start"
          /\ workspaceId' \in Workspaces
          /\ limit' = HandlerLimit
          /\ userEmail' \in Emails
  /\ UNCHANGED <<tokVars, store, rows, legacyRows, scoredRows, issued, failed, result,
                 rerankVars, results, accessible>>

\* lines 90-97 or 90-124: searchFiles returns; with the client and more than
\* one result the completion is requested, otherwise the gate runs
HandlerAfterSearch ==
  /\ pc = "returned"
  /\ IF clientOn /\ Len(result) > 1
     THEN /\ candidates' = result
          /\ topK' = RerankTopK
          /\ pc' = "rr_wait"
          /\ UNCHANGED <<results, accessible>>
     ELSE /\ Gate(result)
          /\ UNCHANGED <<candidates, topK>>
  /\ UNCHANGED <<tokVars, searchVars, reply, clientOn, reranked, userEmail>>

\* ai.js lines 99-121, then lines 98-124: the completion arrives, the list is
\* reordered and cut, and the gate runs
HandlerRerankReply ==
  /\ pc = "rr_wait"
  /\ \E rep \in HandlerReplies :
       /\ reply' = rep
       /\ reranked' = RerankResult(candidates, topK, rep)
  /\ Gate(reranked')
  /\ UNCHANGED <<tokVars, searchVars, candidates, topK, clientOn, userEmail>>

\* lines 126-130: an error of searchFiles or of rerankFilesWithAI is caught
HandlerCatch ==
  /\ pc \in {"thrown", "rr_thrown"}
  /\ pc' = "h_error"
  /\ UNCHANGED <<tokVars, searchVars, rerankVars, filterVars>>

NextHandler ==
  \/ HandlerReceive
  \/ SearchStart
  \/ Tier1Ok \/ Tier1Fail
  \/ Tier2Ok \/ Tier2Fail
  \/ Tier3Ok \/ Tier3Fail
  \/ HandlerAfterSearch
  \/ HandlerRerankReply \/ RerankFail
  \/ HandlerCatch

SpecHandler == InitHandler /\ [][NextHandler]_vars

----------------------------------------------------------------------------
(* Claims about normalizeAndTokenize.                                      *)

\* every raw word of q is a stopword or shorter than 3 characters
AllStopOrShort(q) ==
  \A w \in Range(RawWords(q)) : w \in STOPWORDS \/ Len(w) < 3

\* C5: for a query whose words are all stopwords or shorter than 3 characters,
\* normalizeAndTokenize returns exactly the lower-case raw words, none stripped
\* of its trailing 's' and none removed; and the result is empty only when the
\* query has no alphanumeric content.
C5_FallbackToRawWords ==
  pc = "tok_done" =>
    /\ AllStopOrShort(queryText) => tokens = RawWords(queryText)
    /\ tokens = <<>> => \A i \in 1..Len(queryText) : toLowerChar(queryText[i]) \notin AlnumChars

----------------------------------------------------------------------------
(* Claims about searchFiles.                                               *)

OrcaTokens == <<<<"o","r","c","a">>, <<"d","a","s","h","b","o","a","r","d">>, <<"m","o","c","k","u","p">>>>

\* the rows the returned ranking was made from
Source == IF "tier3" \in Range(issued) THEN legacyRows ELSE rows

\* the place of a row in the fetch order of the ranking's source
FetchPos(id) == CHOOSE i \in 1..Len(Source) : Source[i] = id

\* the scenario of C6: the ORCA query in workspace 1, row 1 fetched, returned
OrcaCase ==
  /\ pc = "returned"
  /\ queryText = OrcaQuery
  /\ workspaceId = Rec(1).workspace_id
  /\ 1 \in Range(rows)

\* C6 as stated: in the ORCA scenario the tokens are orca, dashboard and mockup,
\* the record "ORCA Dashboard Mockup v2" scores at least 36 and is returned first.
C6_AsStated ==
  OrcaCase =>
    /\ tokens = OrcaTokens
    /\ Score(1, tokens) >= 36
    /\ result # <<>> /\ result[1] = 1

\* C6, amended: in the ORCA scenario the tokens are orca, dashboard and mockup,
\* the record scores exactly 28 (contains +8 for each token, starts-with +4 for
\* orca alone), it comes before every fetched row of lower score, and it is
\* returned first when no other fetched row scores 28 or more.
C6_OrcaScenario ==
  OrcaCase =>
    /\ tokens = OrcaTokens
    /\ Score(1, tokens) = 28
    /\ \A i, j \in 1..Len(result) :
         result[j] = 1 /\ Score(result[i], tokens) < 28 => j < i
    /\ (\A id \in Range(rows) \ {1} : Score(id, tokens) < 28)
         => result # <<>> /\ result[1] = 1

\* C6 witness: the record is returned first, ahead of another matching row
C6_Witness ==
  OrcaCase /\ Len(result) >= 2 /\ result[1] = 1

\* some row of the requested workspace scores above zero
OwnPositive ==
  \E id \in Range(store) :
    Rec(id).workspace_id = workspaceId /\ Score(id, tokens) > 0

\* the rows of other workspaces among st that score above zero
OtherPositives(st) ==
  {id \in Range(st) : Rec(id).workspace_id # workspaceId /\ Score(id, tokens) > 0}

\* no row was fetched with a positive score at any tier
NothingPositive ==
  /\ Positives(scoreList(rows, tokens)) = <<>>
  /\ Positives(scoreList(legacyRows, tokens)) = <<>>

C8_State ==
  /\ pc = "thrown" =>
       /\ issued # <<>> /\ failed = issued[Len(issued)]
       /\ result = <<>>
  /\ failed # "" => pc = "thrown"
  /\ \A i, j \in 1..Len(issued) : i < j => issued[i] # issued[j]

\* C8, in every step: the step in which a query fails issues no query, and
\* after the throw nothing more happens.
C8_Step ==
  /\ failed' # failed => pc' = "thrown" /\ issued' = issued
  /\ pc = "thrown" => UNCHANGED <<pc, issued, failed, result>>

\* C8: a record-store error of any tier is thrown at once: no later query is
\* issued, the failed query is not retried, no partial result is returned,
\* and each tier's query is issued at most once per run.
C8_ErrorPropagates == []C8_State /\ [][C8_Step]_vars

\* C8 witness: Tier 2 failed after Tier 1 had returned no row
C8_Witness ==
  pc = "thrown" /\ failed = "tier2" /\ issued = <<"tier1", "tier2">>

\* C9, in every state: the legacy query is issued last, after a scoped query
\* that did not fail, and only when no scoped candidate scores above zero;
\* without it, every returned row was fetched scoped to the workspace.
C9_State ==
  /\ "tier3" \in Range(issued) =>
       /\ Len(issued) >= 2 /\ issued[Len(issued)] = "tier3"
       /\ \A i \in 1..(Len(issued) - 1) : issued[i] \in {"tier1", "tier2"}
       /\ failed \notin {"tier1", "tier2"}
       /\ Positives(scoreList(rows, tokens)) = <<>>
  /\ pc = "returned" /\ "tier3" \notin Range(issued) =>
       \A id \in Range(result) :
         id \in Range(rows) /\ Rec(id).workspace_id = workspaceId

C10_RankedResult ==
  pc = "returned" =>
    /\ \A i \in 1..Len(result) :
         result[i] \in Range(Source) /\ Score(result[i], tokens) > 0
    /\ \A i, j \in 1..Len(result) : i < j =>
         /\ Score(result[i], tokens) >= Score(result[j], tokens)
         /\ Score(result[i], tokens) = Score(result[j], tokens)
              => FetchPos(result[i]) < FetchPos(result[j])
    /\ Len(result) <= limit

\* C10 witness: a result with a tie and a strict descent
C10_Witness ==
  /\ pc = "returned" /\ Len(result) = 3
  /\ Score(result[1], tokens) > Score(result[2], tokens)
  /\ Score(result[2], tokens) = Score(result[3], tokens)

----------------------------------------------------------------------------
(* Claims about the access gate.                                           *)

\* the record's privacy is set, and to something other than public or company
Restricted(f) == f.privacy \notin {"", "public", "company"}

\* the email is there and equals, case aside, one of the record's allowed emails
OnAllowList(f, email) ==
  /\ email # <<>>
  /\ \E i \in 1..Len(f.allowed_user_emails) :
       toLowerCase(f.allowed_user_emails[i]) = toLowerCase(email)

\* C1: the access gate keeps a record of restricted privacy only if the
\* requester's email is, case aside, on the record's allow-list, and keeps
\* every record whose privacy is missing, public or company, whoever asks.
C1_AccessGate ==
  pc = "flt_done" =>
    \A i \in 1..Len(results) :
      /\ Restricted(Rec(results[i])) /\ results[i] \in Range(accessible)
           => OnAllowList(Rec(results[i]), userEmail)
      /\ ~Restricted(Rec(results[i])) => results[i] \in Range(accessible)

\* C1 witness: for one requester a restricted record is kept on an email that
\* differs in case from the allow-list's, and another restricted one is dropped
C1_Witness ==
  /\ pc = "flt_done"
  /\ userEmail = <<"a","n","n","@","x",".","i","o">>
  /\ results = <<4, 5>>
  /\ accessible = <<4>>

----------------------------------------------------------------------------
(* Claims about rerankFilesWithAI.                                         *)

\* C2: for a reply that parses to an object with a ranked array, whatever its
\* indices and scores, the output is a permutation of the candidates cut to
\* topK: every element is a candidate, none appears twice, and every candidate
\* appears when topK is at least the number of candidates.
C2_PermutationThenTruncation ==
  pc = "rr_returned" /\ reply.kind = "array" =>
    /\ \A i \in 1..Len(reranked) : reranked[i] \in Range(candidates)
    /\ \A i, j \in 1..Len(reranked) : i < j => reranked[i] # reranked[j]
    /\ topK >= Len(candidates) => Range(candidates) \subseteq Range(reranked)

\* the reply is no valid structured data, or has no usable ranked array
Unusable(rep) ==
  \/ rep.kind \in {"unparseable", "null", "noarray"}
  \/ rep.kind = "array" /\ rep.ranked = <<>>

\* C3 as stated: on an unusable reply the input candidates are returned
\* unchanged (same records, same order, same length) and no error is raised.
C3_AsStated ==
  /\ pc = "rr_returned" /\ Unusable(reply) => reranked = candidates
  /\ reply.kind # "none" => pc = "rr_returned"

\* C3, amended: on an unusable reply the candidates are returned in their
\* order and no error is raised: all of them when the reply does not parse or
\* parses to null, the first topK of them when it parses to a value with no
\* ranked array or an empty one.
C3_UnusableReplyKeepsOrder ==
  /\ pc = "rr_returned" /\ Unusable(reply) =>
       IF reply.kind \in {"unparseable", "null"}
       THEN reranked = candidates
       ELSE reranked = SubSeq(candidates, 1, IF topK < Len(candidates) THEN topK ELSE Len(candidates))
  /\ reply.kind # "none" => pc = "rr_returned"

\* C3 witness: a reply without a ranked array, more candidates than topK
C3_Witness ==
  /\ pc = "rr_returned" /\ reply.kind = "noarray"
  /\ Len(candidates) > topK
  /\ Len(reranked) = topK

\* C4 as stated: whenever rerankFilesWithAI returns on a reply, well-formed or
\* malformed, the returned sequence has at most topK elements.
C4_AsStated ==
  pc = "rr_returned" /\ reply.kind # "none" => Len(reranked) <= topK

\* C4, amended: the returned sequence has at most topK elements whenever the
\* reply parsed to a value other than null; in the other returns (no client,
\* no candidates, a reply that does not parse or parses to null) it is the
\* input itself, however long.
C4_LengthAtMostTopK ==
  pc = "rr_returned" =>
    IF reply.kind \in {"noarray", "array"}
    THEN Len(reranked) <= topK
    ELSE reranked = candidates

\* C4 witness: a ranked reply cut to topK
C4_Witness ==
  /\ pc = "rr_returned" /\ reply.kind = "array" /\ reply.ranked # <<>>
  /\ Len(candidates) > topK
  /\ Len(reranked) = topK

----------------------------------------------------------------------------
(* Claims about scoreList.                                                 *)

\* the lower-cased name the claim names: file_name, else name
ClaimedName(r) == toLowerCase(IF r.file_name # <<>> THEN r.file_name ELSE r.name)

\* the tags text the claim names
ClaimedTags(r) ==
  toLowerCase(IF r.tags_is_array THEN JoinSpace(r.tags_array)
              ELSE IF r.tags # <<>> THEN r.tags ELSE r.tags_text)

\* the sum the claim states, token by token from the last to the first
RECURSIVE ClaimedScore(_, _)
ClaimedScore(r, toks) ==
  IF toks = <<>> THEN 0
  ELSE LET t == toks[Len(toks)]
       IN  ClaimedScore(r, SubSeq(toks, 1, Len(toks) - 1))
             + (IF includes(ClaimedName(r), t) THEN 8 ELSE 0)
             + (IF startsWith(ClaimedName(r), t) THEN 4 ELSE 0)
             + (IF includes(toLowerCase(r.project), t) THEN 3 ELSE 0)
             + (IF includes(ClaimedTags(r), t) THEN 3 ELSE 0)
             + (IF includes(toLowerCase(r.description), t) THEN 2 ELSE 0)

\* C11: the score scoreList gives a record is a non-negative integer, the sum
\* over all tokens (a repeated token counted each time) of +8 if the
\* lower-cased name contains the token, +4 if the name starts with it, +3 if
\* project contains it, +3 if the tags text contains it and +2 if the
\* description contains it; a record whose name equals a token scores 12 or more.
C11_ScoreIsSumOfPoints ==
  pc = "score_done" =>
    /\ Len(scoredRows) = Len(rows)
    /\ \A i \in 1..Len(scoredRows) :
         /\ scoredRows[i].row = rows[i]
         /\ scoredRows[i].score \in Nat
         /\ scoredRows[i].score = ClaimedScore(Rec(rows[i]), tokens)
         /\ ClaimedName(Rec(rows[i])) \in Range(tokens) => scoredRows[i].score >= 12

\* C11 witness: a token repeated in the query, a scored record whose name is
\* that token, and another that scores nothing
C11_Witness ==
  /\ pc = "score_done"
  /\ tokens = <<<<"d","a","s","h","b","o","a","r","d">>, <<"d","a","s","h","b","o","a","r","d">>>>
  /\ rows = <<4, 3>>
  /\ scoredRows[1].score = 24 /\ scoredRows[2].score = 0

----------------------------------------------------------------------------
(* Claims about the order of the workspace-scoped tiers.                   *)

\* the primary token the claim names: the longest token, the earliest of the
\* equally long ones
ClaimedPrimary(toks) ==
  toks[CHOOSE i \in 1..Len(toks) :
         \A j \in 1..Len(toks) :
           /\ Len(toks[j]) <= Len(toks[i])
           /\ j < i => Len(toks[j]) < Len(toks[i])]

Tier1Issued == "tier1" \in Range(issued)
Tier2Issued == "tier2" \in Range(issued)

\* the Tier 1 query has come back without an error
Tier1Done == Tier1Issued /\ pc # "tier1" /\ failed # "tier1"

\* what the substring query of the claimed primary token returns
ClaimedTier1Rows == Tier1Rows(store, workspaceId, ClaimedPrimary(tokens))

\* C12: Tier 1 is issued exactly when there is a token, with the longest token
\* (the earliest of equally long ones) as primary; Tier 2 is issued exactly
\* when Tier 1 was not issued or returned no row, and never before Tier 1 has
\* completed; when Tier 1 returns a row, Tier 2 is not issued and the Tier 1
\* rows are the candidates that get scored.
C12_ScopedTierOrder ==
  /\ pc # "start" => (Tier1Issued <=> tokens # <<>>)
  /\ pc # "start" /\ ~Tier1Issued => Tier2Issued
  /\ pc = "tier1" => ~Tier2Issued
  /\ Tier1Done /\ ClaimedTier1Rows = <<>> => Tier2Issued
  /\ Tier1Done /\ ClaimedTier1Rows # <<>> =>
       /\ ~Tier2Issued
       /\ rows = ClaimedTier1Rows
       /\ "tier3" \notin Range(issued) \/ pc # "returned" =>
            /\ Len(scoredRows) = Len(rows)
            /\ \A i \in 1..Len(rows) : scoredRows[i].row = rows[i]
  /\ Tier2Issued /\ Tier1Issued =>
       /\ issued[1] = "tier1" /\ issued[2] = "tier2"
       /\ Tier1Done /\ ClaimedTier1Rows = <<>>

\* C12 witness: two tokens of equal length, of which only the later matches a
\* row of the workspace; Tier 1 ran on the earlier, found no row, and Tier 2
\* was issued
C12_Witness ==
  /\ pc = "tier2"
  /\ issued = <<"tier1", "tier2">>
  /\ tokens = <<<<"l","o","g","o">>, <<"o","r","c","a">>>>
  /\ workspaceId = 1
  /\ store = <<1>>

----------------------------------------------------------------------------
(* Claims about the message handler.                                       *)

\* a query or the completion request failed
ExternalFailure == failed # "" \/ (candidates # <<>> /\ reply.kind = "none")

\* a positively scored candidate of the search passes the access rule
AccessiblePositive ==
  \E i \in 1..Len(scoredRows) :
    /\ scoredRows[i].score > 0
    /\ Passes(Rec(scoredRows[i].row), userEmail)

\* C13: when a positively scored candidate of the search passes the access
\* rule for the requester, the handler posts a file the requester may see and
\* does not answer that nothing matched.
C13_AccessibleMatchIsPosted ==
  /\ pc \in {"h_posted", "h_nomatch", "h_error"}
  /\ ~ExternalFailure
  /\ AccessiblePositive
  => /\ pc = "h_posted"
     /\ accessible # <<>>
     /\ Passes(Rec(accessible[1]), userEmail)

====
